---- MODULE Spec2Model ----
(***************************************************************************)
(* Model lifecycle and offline-mode manager of the Docling playground:     *)
(* src/src/config.py (offline flag, registry), src/src/model_manager.py    *)
(* (probes, download drivers, cache relocation, cache clearing) and the    *)
(* callers that bracket downloads (api/routes/models.py, src/cli.py,       *)
(* src/components/model_panel.py).                                         *)
(*                                                                         *)
(* Representation of strings.  Keys, display names and exception names are *)
(* atomic strings.  A file name of the EasyOCR store is the tuple of its   *)
(* characters, so that glob("*lang*") is substring search and              *)
(* "easyocr_" + name is concatenation.  A directory name of a hub cache is *)
(* the tuple of its "--"-separated segments and a repository id the tuple  *)
(* of its "/"-separated segments.  A progress message is the tuple of the  *)
(* parts of its f-string, each an atomic string.                           *)
(***************************************************************************)
EXTENDS Integers, Sequences, FiniteSets, TLC

VARIABLES
    tree,     \* the managed directory tree (MODELS_DIR and below)
    cache,    \* the default system caches (~/.cache/huggingface/hub, ~/.EasyOCR/model)
              \* and the Tesseract data directory
    libs,     \* the importable third-party modules
    environ,  \* os.environ, the variables the program reads or writes
    ret,      \* what the last finished operation returned and did
    toggled,  \* whether enable_offline_mode/disable_offline_mode ran since startup
    run       \* the position of each request or thread that runs step by step

vars == <<tree, cache, libs, environ, ret, toggled, run>>

(***************************************************************************)
(* config.py: enumerations and the registry MODELS_INFO (insertion order). *)
(***************************************************************************)
\* Python's None: the empty tuple where a tuple is expected (hf_repo, language,
\* path), "None" where a string is (ocr_library).  Truthy is Python's truth test.
None == <<>>
Truthy(x) == x # None
TruthyStr(s) == s # "None"

EASYOCR == "easyocr"
RAPIDOCR == "rapidocr"
TESSERACT == "tesseract"

lang_en == <<"e", "n">>
lang_ar == <<"a", "r">>

MODELS_INFO ==
    << [id |-> "layout", name |-> "Layout (Heron)",
        description |-> "Layout analysis for page structure detection",
        size_mb |-> 164, required |-> TRUE,
        hf_repo |-> <<"docling-project", "docling-layout-heron">>,
        ocr_library |-> "None", language |-> None],
       [id |-> "docling_models", name |-> "Docling Models",
        description |-> "Core docling models (tableformer, picture classifier, etc.)",
        size_mb |-> 342, required |-> TRUE,
        hf_repo |-> <<"docling-project", "docling-models">>,
        ocr_library |-> "None", language |-> None],
       [id |-> "granite_docling_vlm", name |-> "GraniteDocling VLM",
        description |-> "Vision-Language Model for document understanding",
        size_mb |-> 4800, required |-> FALSE,
        hf_repo |-> <<"ibm-granite", "granite-vision-3.1-2b-preview">>,
        ocr_library |-> "None", language |-> None],
       [id |-> "chunker_tokenizer", name |-> "Chunker Tokenizer (BGE)",
        description |-> "Tokenizer used by HybridChunker for document chunking",
        size_mb |-> 1, required |-> TRUE,
        hf_repo |-> <<"BAAI", "bge-small-en-v1.5">>,
        ocr_library |-> "None", language |-> None],
       [id |-> "easyocr_en", name |-> "EasyOCR (en)",
        description |-> "EasyOCR English model",
        size_mb |-> 85, required |-> FALSE,
        hf_repo |-> None, ocr_library |-> EASYOCR, language |-> lang_en],
       [id |-> "easyocr_ar", name |-> "EasyOCR (ar)",
        description |-> "EasyOCR Arabic model",
        size_mb |-> 120, required |-> FALSE,
        hf_repo |-> None, ocr_library |-> EASYOCR, language |-> lang_ar],
       [id |-> "rapidocr", name |-> "RapidOCR",
        description |-> "RapidOCR ONNX model",
        size_mb |-> 12, required |-> FALSE,
        hf_repo |-> None, ocr_library |-> RAPIDOCR, language |-> None] >>

RegistryKeys == {MODELS_INFO[i].id : i \in DOMAIN MODELS_INFO}
InRegistry(model_id) == model_id \in RegistryKeys
Info(model_id) == MODELS_INFO[CHOOSE i \in DOMAIN MODELS_INFO : MODELS_INFO[i].id = model_id]

(***************************************************************************)
(* The file systems.  A hub cache maps the name of each directory entry to *)
(* "absent", "empty" (the entry exists and holds no bytes) or "full" (it   *)
(* holds bytes).  The EasyOCR stores are sets of file names.               *)
(***************************************************************************)
RepoDirName(repo_id) == <<"models">> \o repo_id
DatasetEntry == <<"datasets", "org", "corpus">>
RegistryRepos == {MODELS_INFO[i].hf_repo : i \in {j \in DOMAIN MODELS_INFO : Truthy(MODELS_INFO[j].hf_repo)}}
HubNames == {RepoDirName(r) : r \in RegistryRepos} \cup {DatasetEntry}

craft_mlt_25k == <<"c","r","a","f","t","_","m","l","t","_","2","5","k",".","p","t","h">>
english_g2 == <<"e","n","g","l","i","s","h","_","g","2",".","p","t","h">>
arabic_g2 == <<"a","r","a","b","i","c","_","g","2",".","p","t","h">>
OcrFiles == {craft_mlt_25k, english_g2, arabic_g2}

NoEntries == [n \in HubNames |-> "absent"]

\* huggingface_hub.scan_cache_dir: the repositories of a hub cache, each with its
\* id (parsed from the directory name) and its size on disk.
EntryBytes(state) == IF state = "full" THEN 1 ELSE 0
scan_cache_dir(entries) ==
    {[repo_id |-> Tail(n), repo_type |-> Head(n), size_on_disk |-> EntryBytes(entries[n])] :
        n \in {m \in HubNames : entries[m] # "absent"}}

\* pathlib glob(f"*{language}*") over the files of one directory
Contains(name, sub) ==
    \E i \in 0..(Len(name) - Len(sub)) : SubSeq(name, i + 1, i + Len(sub)) = sub
glob(files, language) == {f \in files : Contains(f, language)}

(***************************************************************************)
(* config.py: the offline flag.                                            *)
(***************************************************************************)
\* os.environ[key] = value
setenv(env, key, value) == [env EXCEPT ![key] = value]
\* The two assignments of a toggle, in the order of the code.
OfflinePair == <<"HF_HUB_OFFLINE", "TRANSFORMERS_OFFLINE">>
\* An enable that writes nothing; QuiescentOffline tells it from enable_write.
enable_write_skipped(env, n) == env
enable_write(env, n) == setenv(env, OfflinePair[n], "1")
\* A disable that writes nothing; FetchOfflineOnlyByOther tells it from
\* disable_write.
disable_write_skipped(env, n) == env
disable_write(env, n) == setenv(env, OfflinePair[n], "0")

enable_offline_mode(env) == enable_write(enable_write(env, 1), 2)
disable_offline_mode(env) == disable_write(disable_write(env, 1), 2)
is_offline_mode(env) == env.HF_HUB_OFFLINE = "1"

\* config.py setup_model_directories: the path variables
setup_paths(env) ==
    [env EXCEPT !.HF_HOME = "models/huggingface",
                !.HF_HUB_CACHE = "models/huggingface/hub",
                !.TRANSFORMERS_CACHE = "unset",
                !.EASYOCR_MODULE_PATH = "models/easyocr"]

(***************************************************************************)
(* model_manager.py: construction.  mkdir(parents=True, exist_ok=True) of  *)
(* the root and the two subdirectories, in this order.                     *)
(***************************************************************************)
mkdir_root(t) == [t EXCEPT !.root = TRUE]
mkdir_hf(t) == [t EXCEPT !.root = TRUE, !.hf = TRUE]
mkdir_ocr(t) == [t EXCEPT !.root = TRUE, !.ocr = TRUE]
mkdir_hub(t) == [t EXCEPT !.root = TRUE, !.hf = TRUE, !.hub = TRUE]

\* Path.mkdir(parents=True, exist_ok=...) as one os.mkdir: it creates the
\* directory (and its parents), or finds that it exists, which raises
\* FileExistsError unless exist_ok.
mkdir(t, dir, exist_ok) ==
    IF t[dir]
    THEN [tree |-> t, raised |-> IF exist_ok THEN "None" ELSE "FileExistsError"]
    ELSE [tree |-> IF dir = "root" THEN mkdir_root(t)
                   ELSE IF dir = "hf" THEN mkdir_hf(t) ELSE mkdir_ocr(t),
          raised |-> "None"]

\* __init__: the n-th directory creation.  init_mkdir_exclusive is the same
\* creation without exist_ok; ConstructionIsSafe tells it from init_mkdir.
InitDirs == <<"root", "hf", "ocr">>
init_mkdir_exclusive(t, n) == mkdir(t, InitDirs[n], FALSE)
init_mkdir(t, n) == mkdir(t, InitDirs[n], TRUE)

ModelManager_init(t) == init_mkdir(init_mkdir(init_mkdir(t, 1).tree, 2).tree, 3).tree

(***************************************************************************)
(* model_manager.py: the backend probes.                                   *)
(***************************************************************************)
RepoMatch(repos, repo_id) ==
    IF \E r \in repos : r.repo_id = repo_id
    THEN (CHOOSE r \in repos : r.repo_id = repo_id).size_on_disk > 0
    ELSE FALSE

\* A hub probe that answers from the directories without the library;
\* ProbesTolerateAbsence tells it from _check_hf_model_exists.
_check_hf_model_exists_unguarded(t, repo_id) ==
    IF ~t.hub THEN RepoMatch(scan_cache_dir(cache.hub), repo_id)
    ELSE RepoMatch(scan_cache_dir(t.repos), repo_id)

\* A hub probe that falls back to the default cache also when the managed
\* hub directory exists; HubProbeOneCache tells it from
\* _check_hf_model_exists.
_check_hf_model_exists_both(t, repo_id) ==
    IF "huggingface_hub" \notin libs THEN FALSE
    ELSE \/ t.hub /\ RepoMatch(scan_cache_dir(t.repos), repo_id)
         \/ cache.hubExists /\ RepoMatch(scan_cache_dir(cache.hub), repo_id)

_check_hf_model_exists(t, repo_id) ==
    IF "huggingface_hub" \notin libs THEN FALSE
    ELSE IF ~t.hub
         THEN IF ~cache.hubExists THEN FALSE
              ELSE RepoMatch(scan_cache_dir(cache.hub), repo_id)
         ELSE RepoMatch(scan_cache_dir(t.repos), repo_id)

_check_easyocr_model_exists(t, language) ==
    IF t.ocr /\ Truthy(language) /\ glob(t.files, language) # {}
    THEN TRUE
    ELSE IF cache.ocrExists
         THEN IF Truthy(language) THEN glob(cache.files, language) # {} ELSE TRUE
         ELSE FALSE

_check_ocr_model_exists(t, library, language) ==
    IF library = EASYOCR THEN _check_easyocr_model_exists(t, language)
    ELSE IF library = RAPIDOCR
         THEN ("rapidocr" \in libs) \/ ("rapidocr_onnxruntime" \in libs)
         ELSE IF library = TESSERACT
              THEN IF Truthy(language) THEN cache.tessdata = "lang"
                   ELSE cache.tessdata # "missing"
              ELSE FALSE

\* A status that reports every model as downloaded without probing.
\* StatusPerDescriptor tells it from status_of.
status_of_unprobed(t, info) ==
    [id |-> info.id, name |-> info.name, description |-> info.description,
     size_mb |-> info.size_mb, required |-> info.required,
     downloaded |-> TRUE, path |-> None]

\* get_model_status: the body of the loop for one descriptor
status_of(t, info) ==
    LET downloaded ==
            IF Truthy(info.hf_repo) THEN _check_hf_model_exists(t, info.hf_repo)
            ELSE IF TruthyStr(info.ocr_library)
                 THEN _check_ocr_model_exists(t, info.ocr_library, info.language)
                 ELSE FALSE
        path ==
            IF ~downloaded THEN None
            ELSE IF Truthy(info.hf_repo) THEN <<"HF: ">> \o info.hf_repo
                 ELSE <<"OCR: ", info.ocr_library>>
    IN [id |-> info.id, name |-> info.name, description |-> info.description,
        size_mb |-> info.size_mb, required |-> info.required,
        downloaded |-> downloaded, path |-> path]

get_model_status(t) == [i \in DOMAIN MODELS_INFO |-> status_of(t, MODELS_INFO[i])]

(***************************************************************************)
(* An operation runs on a context x: the tree and the environment it acts  *)
(* on, the progress messages it has delivered (msgs), the log of what it   *)
(* did (calls of the download operations, fetches started, file-system and *)
(* environment writes), the value it returns and the exception that left   *)
(* it ("None" when it returned).                                           *)
(***************************************************************************)
Ctx(t, env) ==
    [tree |-> t, environ |-> env, msgs |-> <<>>, log |-> <<>>, value |-> "None",
     raised |-> "None"]
\* str(list) of an f-string: the characters of the elements, one after the other
RECURSIVE str_list(_)
str_list(l) == IF l = <<>> THEN <<>> ELSE Head(l) \o str_list(Tail(l))
Say(x, cb, msg) == IF cb THEN [x EXCEPT !.msgs = Append(@, msg)] ELSE x
Did(x, event) == [x EXCEPT !.log = Append(@, event)]
Return(x, v) == [x EXCEPT !.value = v]

\* What a fetch does: it completes, or it raises err.  A fetch that raises
\* leaves the store as it was.
FetchErrors == {"ConnectionError"}
Completes == [ok |-> TRUE, err |-> "None"]
Raises(e) == [ok |-> FALSE, err |-> e]
Outcomes == {Completes} \cup {Raises(e) : e \in FetchErrors}

\* The log entry of a fetch: what was fetched, whether offline mode was enabled
\* when it started and the exception it raised ("None" when it completed).
FetchEvent(x, backend, target, o) ==
    [ev |-> "fetch", backend |-> backend, target |-> target,
     offline |-> is_offline_mode(x.environ), err |-> o.err]

\* huggingface_hub.snapshot_download(repo_id, cache_dir)
snapshot_download(t, repo_id, o) ==
    LET n == RepoDirName(repo_id)
    IN IF o.ok THEN [t EXCEPT !.repos[n] = "full"] ELSE t

\* A driver that does not catch what the fetch raises: the exception leaves it
\* and no message is delivered.  CatchesFetchErrors tells it from
\* download_hf_model.
download_hf_model_uncaught(x0, repo_id, cb, o) ==
    LET x == Did(x0, [ev |-> "download_hf_model", target |-> repo_id])
        x1 == Did([x EXCEPT !.tree = snapshot_download(mkdir_hub(@), repo_id, o)],
                  FetchEvent(x, "hub", repo_id, o))
    IN IF o.ok THEN Return(x1, TRUE) ELSE [x1 EXCEPT !.raised = o.err]

\* A driver that tries the fetch once more when it raised; SingleAttempt tells
\* it from download_hf_model.
download_hf_model_retrying(x0, repo_id, cb, o) ==
    LET x == Did(x0, [ev |-> "download_hf_model", target |-> repo_id])
        x1 == Say(x, cb, <<"Downloading ">> \o repo_id \o <<"...">>)
        x2 == Did([x1 EXCEPT !.tree = snapshot_download(mkdir_hub(@), repo_id, o)],
                  FetchEvent(x1, "hub", repo_id, o))
    IN IF o.ok
       THEN Return(Say(x2, cb, <<"Downloaded ">> \o repo_id), TRUE)
       ELSE Return(Say(Did(x2, FetchEvent(x2, "hub", repo_id, o)), cb,
                       <<"Failed to download ">> \o repo_id \o <<": ", o.err>>), FALSE)

download_hf_model(x0, repo_id, cb, o) ==
    LET x == Did(x0, [ev |-> "download_hf_model", target |-> repo_id])
    IN
    IF "huggingface_hub" \notin libs
    THEN Return(Say(x, cb, <<"Failed to download ">> \o repo_id \o <<": ", "ImportError">>), FALSE)
    ELSE LET x1 == Say(x, cb, <<"Downloading ">> \o repo_id \o <<"...">>)
             x2 == Did([x1 EXCEPT !.tree = mkdir_hub(@)], [ev |-> "mkdir", path |-> "hub"])
             x3 == Did([x2 EXCEPT !.tree = snapshot_download(@, repo_id, o)],
                       FetchEvent(x2, "hub", repo_id, o))
         IN IF o.ok
            THEN Return(Say(x3, cb, <<"Downloaded ">> \o repo_id), TRUE)
            ELSE Return(Say(x3, cb, <<"Failed to download ">> \o repo_id \o <<": ", o.err>>), FALSE)

\* easyocr.Reader(languages, model_storage_directory, download_enabled=True)
RecognitionModel(languages) ==
    IF \E i \in DOMAIN languages : languages[i] = lang_ar THEN arabic_g2 ELSE english_g2
Reader(t, languages, o) ==
    IF o.ok
    THEN [mkdir_ocr(t) EXCEPT !.files = @ \cup {craft_mlt_25k, RecognitionModel(languages)}]
    ELSE t

\* A driver that also enables offline mode when it points EasyOCR at the
\* managed store; OfflinePairKept tells it from download_easyocr_model.
download_easyocr_model_offline(x0, languages, cb, o) ==
    LET x == Did(x0, [ev |-> "download_easyocr_model", target |-> languages])
        x1 == [x EXCEPT !.environ = enable_offline_mode(
                                        [@ EXCEPT !.EASYOCR_MODULE_PATH = "models/easyocr"])]
    IN Return(x1, FALSE)

download_easyocr_model(x0, languages, cb, o) ==
    LET x == Did(x0, [ev |-> "download_easyocr_model", target |-> languages])
        x1 == Say(x, cb, <<"Downloading EasyOCR models for ">> \o str_list(languages) \o <<"...">>)
        x2 == Did([x1 EXCEPT !.environ.EASYOCR_MODULE_PATH = "models/easyocr"],
                  [ev |-> "setenv", path |-> "EASYOCR_MODULE_PATH"])
    IN IF "easyocr" \notin libs
       THEN Return(Say(x2, cb, <<"Failed to download EasyOCR: ", "ImportError">>), FALSE)
       ELSE LET x3 == Did([x2 EXCEPT !.tree = Reader(@, languages, o)],
                          FetchEvent(x2, "easyocr", languages, o))
            IN IF o.ok
               THEN Return(Say(x3, cb, <<"EasyOCR models downloaded for ">> \o str_list(languages)), TRUE)
               ELSE Return(Say(x3, cb, <<"Failed to download EasyOCR: ", o.err>>), FALSE)

download_model(x, model_id, cb, o) ==
    LET x0 == Did(x, [ev |-> "download_model", model_id |-> model_id])
    IN IF ~InRegistry(model_id) THEN Return(x0, FALSE)
       ELSE LET info == Info(model_id)
            IN IF Truthy(info.hf_repo)
               THEN download_hf_model(x0, info.hf_repo, cb, o)
               ELSE IF TruthyStr(info.ocr_library)
                    THEN IF info.ocr_library = EASYOCR
                         THEN download_easyocr_model(x0, <<info.language>>, cb, o)
                         ELSE IF info.ocr_library = RAPIDOCR
                              THEN Return(Say(x0, cb, <<"RapidOCR models are bundled with the package">>), TRUE)
                              ELSE IF info.ocr_library = TESSERACT
                                   THEN Return(Say(x0, cb, <<"Tesseract models must be installed via system package manager">>), FALSE)
                                   ELSE Return(x0, FALSE)
                    ELSE Return(x0, FALSE)

Put(results, key, v) == (key :> v) @@ results

\* Two variants of the batch loop's parts: a test that keeps every descriptor,
\* and a result map that keeps successes only.  OptionalSkipped tells the
\* first from considered, BatchKeySet the second from record_result.
considered_always(info, include_optional) == TRUE
record_result_on_success(results, model_id, success) ==
    IF success THEN Put(results, model_id, success) ELSE results

\* download_all: the test that keeps a descriptor in the batch, and
\* results[model_id] = success
considered(info, include_optional) == ~(~include_optional /\ ~info.required)
record_result(results, model_id, success) == Put(results, model_id, success)

\* download_all: the loop over MODELS_INFO from position i on, results so far in
\* x.value; outs gives the outcome of each descriptor's fetch.  The loop goes
\* on only while nothing has been raised.
RECURSIVE download_all_from(_, _, _, _, _)
download_all_from(x, i, include_optional, cb, outs) ==
    IF i > Len(MODELS_INFO) \/ x.raised # "None" THEN x
    ELSE LET info == MODELS_INFO[i]
         IN IF ~considered(info, include_optional)
            THEN download_all_from(x, i + 1, include_optional, cb, outs)
            ELSE LET results == x.value
                     x1 == Say(x, cb, <<"Checking ", info.name, "...">>)
                     x2 == download_model(x1, info.id, cb, outs[info.id])
                     x3 == Return(x2, record_result(results, info.id, x2.value))
                 IN download_all_from(x3, i + 1, include_optional, cb, outs)

EmptyMap == [k \in {} |-> FALSE]
download_all(x, include_optional, cb, outs) ==
    download_all_from(
        Return(Did(x, [ev |-> "download_all", include_optional |-> include_optional]), EmptyMap),
        1, include_optional, cb, outs)

download_required(x, cb, outs) == download_all(x, FALSE, cb, outs)

(***************************************************************************)
(* model_manager.py: clear_cache.  fault names the file-system step that   *)
(* raises, "none" when every step succeeds.  A failing rmtree has removed  *)
(* nothing ("rmtree"), or everything but one subdirectory ("rmtree_hf",    *)
(* "rmtree_ocr": that subdirectory is the one it could not remove), or     *)
(* everything but the root itself ("rmtree_root").                         *)
(***************************************************************************)
Removed == [root |-> FALSE, hf |-> FALSE, ocr |-> FALSE, hub |-> FALSE,
            repos |-> NoEntries, files |-> {}]
Faults(t) ==
    {"none", "rmtree", "rmtree_root", "mkdir_root", "mkdir_hf", "mkdir_ocr"}
    \cup (IF t.hf THEN {"rmtree_hf"} ELSE {}) \cup (IF t.ocr THEN {"rmtree_ocr"} ELSE {})

\* A removal that removes nothing and reports success.  ClearedStatus tells it
\* from rmtree.
rmtree_keeps(t, fault) == t

rmtree(t, fault) ==
    IF fault = "rmtree" THEN t
    ELSE IF fault = "rmtree_hf" THEN [t EXCEPT !.ocr = FALSE, !.files = {}]
    ELSE IF fault = "rmtree_ocr"
         THEN [t EXCEPT !.hf = FALSE, !.hub = FALSE, !.repos = NoEntries]
    ELSE IF fault = "rmtree_root" THEN [Removed EXCEPT !.root = TRUE]
    ELSE Removed

clear_cache(x, fault) ==
    IF ~x.tree.root THEN Return(x, TRUE)
    ELSE LET x1 == Did([x EXCEPT !.tree = rmtree(@, fault)], [ev |-> "rmtree", path |-> "root"])
         IN IF fault \in {"rmtree", "rmtree_hf", "rmtree_ocr", "rmtree_root"}
            THEN Return(x1, FALSE)
            ELSE IF fault = "mkdir_root" THEN Return(x1, FALSE)
            ELSE LET x2 == Did([x1 EXCEPT !.tree = mkdir_root(@)], [ev |-> "mkdir", path |-> "root"])
                 IN IF fault = "mkdir_hf" THEN Return(x2, FALSE)
                    ELSE LET x3 == Did([x2 EXCEPT !.tree = mkdir_hf(@)], [ev |-> "mkdir", path |-> "huggingface"])
                         IN IF fault = "mkdir_ocr" THEN Return(x3, FALSE)
                            ELSE Return(Did([x3 EXCEPT !.tree = mkdir_ocr(@)],
                                            [ev |-> "mkdir", path |-> "easyocr"]), TRUE)

(***************************************************************************)
(* model_manager.py: get_disk_usage.                                       *)
(***************************************************************************)
RECURSIVE SumBytes(_, _)
SumBytes(entries, names) ==
    IF names = {} THEN 0
    ELSE LET n == CHOOSE m \in names : TRUE
         IN EntryBytes(entries[n]) + SumBytes(entries, names \ {n})

FileBytes(f) == Len(f)
RECURSIVE SumFiles(_)
SumFiles(files) ==
    IF files = {} THEN 0
    ELSE LET f == CHOOSE g \in files : TRUE IN FileBytes(f) + SumFiles(files \ {f})

\* A usage whose total leaves the EasyOCR store out; UsageAddsUp tells it from
\* get_disk_usage.
get_disk_usage_hub_total(t) ==
    LET huggingface == IF t.hf THEN SumBytes(t.repos, HubNames) ELSE 0
        easyocr == IF t.ocr THEN SumFiles(t.files) ELSE 0
    IN [total |-> huggingface, huggingface |-> huggingface, easyocr |-> easyocr]

get_disk_usage(t) ==
    LET huggingface == IF t.hf THEN SumBytes(t.repos, HubNames) ELSE 0
        easyocr == IF t.ocr THEN SumFiles(t.files) ELSE 0
    IN [total |-> huggingface + easyocr, huggingface |-> huggingface, easyocr |-> easyocr]

(***************************************************************************)
(* model_manager.py: copy_from_cache.  A directory is listed in a fixed    *)
(* order.  fails names the items whose copy raises; a copy that raises has *)
(* created its destination without content when fails.partial holds and    *)
(* has created nothing otherwise.                                          *)
(***************************************************************************)
RECURSIVE iterdir(_)
iterdir(names) ==
    IF names = {} THEN <<>>
    ELSE LET n == CHOOSE m \in names : TRUE IN <<n>> \o iterdir(names \ {n})

startswith_models(name) == Len(name) >= 1 /\ Head(name) = "models"
\* The empty prefix; OcrKeysArePrefixed tells it from easyocr_prefix.
empty_prefix == <<>>
easyocr_prefix == <<"e","a","s","y","o","c","r","_">>

\* dest.exists() for a hub entry and for an EasyOCR file of the managed tree.
\* dest_exists_never is a test that never finds the destination;
\* SecondCopyOnlyRetries tells it from dest_exists_hub.
dest_exists_never(t, item) == FALSE
dest_exists_hub(t, item) == t.repos[item] # "absent"
dest_exists_ocr(t, item) == t.ocr /\ item \in t.files

\* The log entry of a copy: the entry copied, whether its destination was
\* there when the copy started and the exception the copy raised.
CopyEvent(x, call, item, existed, err) ==
    [ev |-> call, path |-> item, existed |-> existed, err |-> err]

\* results[item.name] = True / False.  copy_verdict_on_success keeps no
\* verdict of a failed copy; CopyVerdicts tells it from copy_verdict.
copy_verdict_on_success(results, key, success) ==
    IF success THEN Put(results, key, success) ELSE results
copy_verdict(results, key, success) == Put(results, key, success)

RECURSIVE copy_hub_items(_, _, _, _)
copy_hub_items(x, items, cb, fails) ==
    IF items = <<>> THEN x
    ELSE LET item == Head(items)
             rest == Tail(items)
         IN IF startswith_models(item) /\ ~dest_exists_hub(x.tree, item)
            THEN LET x1 == Say(x, cb, <<"  Copying ">> \o item \o <<"...">>)
                 IN IF item \notin fails.items
                    THEN copy_hub_items(
                            Return(Did([x1 EXCEPT !.tree.repos[item] = cache.hub[item]],
                                       CopyEvent(x1, "copytree", item,
                                                 x1.tree.repos[item] # "absent", "None")),
                                   copy_verdict(x1.value, item, TRUE)),
                            rest, cb, fails)
                    ELSE copy_hub_items(
                            Return(Say(Did([x1 EXCEPT !.tree.repos[item] =
                                                IF fails.partial THEN "empty" ELSE "absent"],
                                           CopyEvent(x1, "copytree", item,
                                                     x1.tree.repos[item] # "absent", "OSError")),
                                       cb, <<"  Failed: ", "OSError">>),
                                   copy_verdict(x1.value, item, FALSE)),
                            rest, cb, fails)
            ELSE copy_hub_items(x, rest, cb, fails)

RECURSIVE copy_ocr_items(_, _, _, _)
copy_ocr_items(x, items, cb, fails) ==
    IF items = <<>> THEN x
    ELSE LET item == Head(items)
             rest == Tail(items)
         IN IF ~dest_exists_ocr(x.tree, item)
            THEN LET x1 == Say(x, cb, <<"  Copying ">> \o item \o <<"...">>)
                 IN IF x.tree.ocr /\ item \notin fails.items
                    THEN copy_ocr_items(
                            Return(Did([x1 EXCEPT !.tree.files = @ \cup {item}],
                                       CopyEvent(x1, "copy2", item, item \in x1.tree.files,
                                                 "None")),
                                   copy_verdict(x1.value, easyocr_prefix \o item, TRUE)),
                            rest, cb, fails)
                    ELSE copy_ocr_items(
                            Return(Say(Did([x1 EXCEPT !.tree.files =
                                                IF x.tree.ocr /\ fails.partial
                                                THEN @ \cup {item} ELSE @],
                                           CopyEvent(x1, "copy2", item, item \in x1.tree.files,
                                                     "OSError")),
                                       cb, <<"  Failed: ", "OSError">>),
                                   copy_verdict(x1.value, easyocr_prefix \o item, FALSE)),
                            rest, cb, fails)
            ELSE copy_ocr_items(x, rest, cb, fails)

copy_from_cache(x, cb, fails) ==
    LET x0 == Return(x, EmptyMap)
        x1 == IF cache.hubExists
              THEN copy_hub_items(
                       Did([Say(x0, cb, <<"Copying HuggingFace models...">>)
                                EXCEPT !.tree = mkdir_hub(@)],
                           [ev |-> "mkdir", path |-> "hub"]),
                       iterdir({n \in HubNames : cache.hub[n] # "absent"}), cb, fails)
              ELSE x0
    IN IF cache.ocrExists
       THEN copy_ocr_items(Say(x1, cb, <<"Copying EasyOCR models...">>),
                           iterdir(cache.files), cb, fails)
       ELSE x1

(***************************************************************************)
(* The callers of the download operations.  Each runs to its end in one    *)
(* step here.  The HTTP routes and the UI handlers run in the serving      *)
(* process; a CLI command is a process of its own, with its own os.environ *)
(* inherited from the shell.                                               *)
(***************************************************************************)
call_disable_offline_mode(x) ==
    Did([x EXCEPT !.environ = disable_offline_mode(@)], [ev |-> "disable_offline_mode"])
call_enable_offline_mode(x) ==
    Did([x EXCEPT !.environ = enable_offline_mode(@)], [ev |-> "enable_offline_mode"])
call_ModelManager(x) == [x EXCEPT !.tree = ModelManager_init(@)]

\* api/routes/models.py
route_download_model(x, model_id, o) ==
    LET x1 == call_disable_offline_mode(x)
        x2 == download_model(x1, model_id, TRUE, o)
        x3 == Return(x2, [success |-> x2.value,
                          message |-> IF x2.msgs # <<>> THEN x2.msgs ELSE None])
    IN call_enable_offline_mode(x3)

route_download_required_models(x, outs) ==
    call_enable_offline_mode(download_required(call_disable_offline_mode(x), TRUE, outs))

route_download_all_models(x, outs) ==
    call_enable_offline_mode(download_all(call_disable_offline_mode(x), TRUE, TRUE, outs))

route_download_easyocr_models(x, languages, o) ==
    LET x1 == call_disable_offline_mode(x)
        x2 == download_easyocr_model(x1, languages, TRUE, o)
        x3 == Return(x2, [success |-> x2.value, languages |-> languages, messages |-> x2.msgs])
    IN call_enable_offline_mode(x3)

\* src/cli.py: models download.  A step is reached only when the steps before
\* it have raised nothing.
ok(x) == x.raised = "None"

cli_download(x, opt, outs) ==
    LET x1 == call_ModelManager(call_disable_offline_mode(x))
    IN IF opt.download_all
       THEN LET x2 == download_all(x1, TRUE, TRUE, outs)
            IN IF ~ok(x2) THEN x2
               ELSE Return(download_easyocr_model(x2, <<lang_en, lang_ar>>, TRUE,
                                                  outs["easyocr_ar"]),
                           "None")
       ELSE LET x2 == IF opt.docling
                      THEN LET y == download_hf_model(x1, MODELS_INFO[1].hf_repo, TRUE,
                                                      outs["layout"])
                           IN IF ~ok(y) THEN y
                              ELSE download_hf_model(y, MODELS_INFO[2].hf_repo, TRUE,
                                                     outs["docling_models"])
                      ELSE x1
            IN IF ~ok(x2) THEN x2
               ELSE LET x3 == IF opt.vlm
                              THEN download_hf_model(x2, MODELS_INFO[3].hf_repo, TRUE,
                                                     outs["granite_docling_vlm"])
                              ELSE x2
                    IN IF ~ok(x3) THEN x3
                       ELSE LET x4 == IF opt.easyocr
                                      THEN download_easyocr_model(x3, <<lang_en, lang_ar>>,
                                                                  TRUE, outs["easyocr_ar"])
                                      ELSE x3
                            IN IF ~ok(x4) THEN x4
                               ELSE IF ~(opt.docling \/ opt.vlm \/ opt.easyocr)
                                    THEN Return(download_required(x4, TRUE, outs), "None")
                                    ELSE Return(x4, "None")

\* src/cli.py: setup-offline
cli_setup_offline(x, include_optional, fails, outs) ==
    LET x1 == call_ModelManager(call_disable_offline_mode(x))
        x2 == copy_from_cache(x1, TRUE, fails)
    IN IF ~ok(x2) THEN x2
       ELSE LET x3 == download_all(x2, include_optional, TRUE, outs)
            IN IF ~ok(x3) THEN x3
               ELSE LET x4 == Return(x3, get_model_status(x3.tree))
                    IN Return(call_enable_offline_mode(x4), "None")

\* src/components/model_panel.py
get_model_table_data(t) ==
    LET statuses == get_model_status(t)
    IN [i \in DOMAIN statuses |->
           <<statuses[i].name,
             IF statuses[i].downloaded THEN "Ready" ELSE "Missing",
             statuses[i].size_mb,
             IF statuses[i].downloaded THEN "Downloaded" ELSE "Download">>]

panel_result(x) ==
    LET results == x.value
    IN Return(x, [table |-> get_model_table_data(x.tree),
                  success_count |-> Cardinality({k \in DOMAIN results : results[k]}),
                  total_count |-> Cardinality(DOMAIN results)])

ui_download_required_models(x, outs) ==
    panel_result(download_required(call_ModelManager(x), TRUE, outs))

ui_download_all_models(x, outs) ==
    panel_result(download_all(call_ModelManager(x), TRUE, TRUE, outs))

(***************************************************************************)
(* The state at startup: config.py has been imported (the directories and  *)
(* the path variables are set up, the offline pair is as inherited from    *)
(* the parent process) and a ModelManager has been constructed.            *)
(***************************************************************************)
AllLibs == {"huggingface_hub", "easyocr", "rapidocr", "rapidocr_onnxruntime"}

NoCache == [hubExists |-> FALSE, hub |-> NoEntries, ocrExists |-> FALSE, files |-> {},
            tessdata |-> "missing"]
SomeCache ==
    [hubExists |-> TRUE,
     hub |-> [NoEntries EXCEPT ![RepoDirName(MODELS_INFO[1].hf_repo)] = "full",
                               ![RepoDirName(MODELS_INFO[2].hf_repo)] = "empty",
                               ![DatasetEntry] = "full"],
     ocrExists |-> TRUE, files |-> {craft_mlt_25k, english_g2}, tessdata |-> "lang"]
EmptyCache == [hubExists |-> TRUE, hub |-> NoEntries, ocrExists |-> TRUE, files |-> {},
               tessdata |-> "dir"]

\* The installations the model starts from: the modules that can be imported
\* and what the default caches hold.
Installations ==
    { [libs |-> AllLibs, cache |-> NoCache],
      [libs |-> AllLibs, cache |-> SomeCache],
      [libs |-> {}, cache |-> SomeCache],
      [libs |-> {"huggingface_hub", "rapidocr_onnxruntime"}, cache |-> EmptyCache] }

InheritedOffline == {"unset", "1"}
Environ0(v) ==
    setup_paths([HF_HUB_OFFLINE |-> v, TRANSFORMERS_OFFLINE |-> v, HF_HOME |-> "unset",
                 HF_HUB_CACHE |-> "unset", TRANSFORMERS_CACHE |-> "unset",
                 EASYOCR_MODULE_PATH |-> "unset"])

\* What is kept of a finished operation: who ran it (op, arg), what it returned
\* or raised, the messages and the log, whether offline mode was enabled in its
\* process when it finished and, for a query, the operation that finished just
\* before it when that was one of Tracked; for an operation of Repeated, the
\* same operation when it finished just before it.
Tracked == {"clear_cache"}
Queries == {"get_model_status", "get_disk_usage"}
Repeated == {"copy_from_cache"}
Untracked == [op |-> "other", value |-> "None"]
Result(op, arg, x, before) ==
    [op |-> op, arg |-> arg, value |-> x.value, raised |-> x.raised, msgs |-> x.msgs,
     log |-> x.log, offline |-> is_offline_mode(x.environ),
     after |-> IF \/ op \in Queries /\ before.op \in Tracked
                  \/ op \in Repeated /\ before.op = op
               THEN [op |-> before.op, value |-> before.value]
               ELSE Untracked]

Startup == [op |-> "import", arg |-> <<>>, value |-> "None"]

\* The requests and threads that run step by step: two download requests of
\* the HTTP API (their toggles run on the event loop, their downloads in
\* worker threads), one document-processing worker thread, two
\* constructions of a ModelManager on the managed root, one clear_cache
\* call (pc counts its file-system calls, value is what it returned, "None"
\* while it runs), and two process_file calls on the singleton processor
\* (_converter is the tuple of the options the cached converter was built
\* from, used the converter a call converted with; None is the empty tuple).
Requests == {"req1", "req2"}
Calls == {"call1", "call2"}
Ctors == {"ctor1", "ctor2"}
RequestModel == [req1 |-> "layout", req2 |-> "easyocr_en"]
RequestRoutes ==
    [req1 |-> {"download_model", "download_required"},
     req2 |-> {"download_model", "download_all", "download_easyocr_models"}]
Idle ==
    [req |-> [r \in Requests |-> "idle"],
     proc |-> "idle",
     ctor |-> [c \in Ctors |-> [pc |-> 0, raised |-> "None"]],
     clear |-> [pc |-> 0, value |-> "None"],
     processor |-> [_converter |-> None, _current_options |-> None],
     call |-> [c \in Calls |-> [pc |-> "idle", options |-> None, used |-> None]],
     writer |-> "none",
     manager |-> TRUE]

Init ==
    /\ run = Idle
    /\ tree = ModelManager_init(Removed)
    /\ \E i \in Installations : cache = i.cache /\ libs = i.libs
    /\ environ \in {Environ0(v) : v \in InheritedOffline}
    /\ ret = Result("ModelManager", <<>>, Ctx(tree, environ), Startup)
    /\ toggled = FALSE

Toggles(log) == \E i \in DOMAIN log : log[i].ev \in {"disable_offline_mode", "enable_offline_mode"}

\* An operation of the serving process finishes with context x.
Finish(op, arg, x) ==
    /\ tree' = x.tree
    /\ environ' = x.environ
    /\ ret' = Result(op, arg, x, ret)
    /\ toggled' = (toggled \/ Toggles(x.log))
    /\ UNCHANGED <<cache, libs, run>>

\* A CLI command finishes with context x: its environment ends with it.
FinishCli(op, arg, x) ==
    /\ tree' = x.tree
    /\ ret' = Result(op, arg, x, ret)
    /\ UNCHANGED <<environ, toggled, cache, libs, run>>

Now == Ctx(tree, environ)

(***************************************************************************)
(* The manager's operations, each called directly.                         *)
(***************************************************************************)
Construct ==
    Finish("ModelManager", <<>>, call_ModelManager(Now))

\* A status that creates the hub directory it scans; StatusIsPure tells it
\* from GetModelStatus.
GetModelStatusCreating ==
    Finish("get_model_status", <<>>,
           Return([Now EXCEPT !.tree = mkdir_hub(@)], get_model_status(tree)))

GetModelStatus ==
    Finish("get_model_status", <<>>, Return(Now, get_model_status(tree)))

UnknownKeys == {"nonexistent-key"}
DownloadModel ==
    \E model_id \in RegistryKeys \cup UnknownKeys, cb \in BOOLEAN, o \in Outcomes :
        Finish("download_model", <<model_id, cb>>, download_model(Now, model_id, cb, o))

\* The fetches of one batch: those of the descriptors in failing raise.
FailSets ==
    { {}, RegistryKeys, {"layout"}, {"docling_models", "easyocr_ar"},
      {"granite_docling_vlm", "chunker_tokenizer", "easyocr_en"} }
BatchOutcomes ==
    {[k \in RegistryKeys |-> IF k \in failing THEN Raises("ConnectionError") ELSE Completes] :
        failing \in FailSets}

DownloadAll ==
    \E include_optional \in BOOLEAN, outs \in BatchOutcomes :
        Finish("download_all", <<include_optional>>,
               download_all(Now, include_optional, TRUE, outs))

DownloadRequired ==
    \E outs \in BatchOutcomes :
        Finish("download_required", <<>>, download_required(Now, TRUE, outs))

CopyFailures ==
    {[items |-> {}, partial |-> FALSE]} \cup
    {[items |-> i, partial |-> p] : i \in {{english_g2}, HubNames \cup OcrFiles}, p \in BOOLEAN}
CopyFromCache ==
    \E fails \in CopyFailures :
        Finish("copy_from_cache", <<>>, copy_from_cache(Now, TRUE, fails))

ClearCache ==
    \E fault \in Faults(tree) :
        Finish("clear_cache", <<fault>>, clear_cache(Now, fault))

GetDiskUsage ==
    Finish("get_disk_usage", <<>>, Return(Now, get_disk_usage(tree)))

(***************************************************************************)
(* The callers.  A CLI command starts from the environment of its shell;   *)
(* disable_offline_mode overwrites the pair before anything reads it.      *)
(***************************************************************************)
CallerFailSets == { {}, RegistryKeys, {"docling_models", "easyocr_ar"} }
CallerOutcomes ==
    {[k \in RegistryKeys |-> IF k \in failing THEN Raises("ConnectionError") ELSE Completes] :
        failing \in CallerFailSets}
CliEnviron == Environ0("unset")

RouteDownloadModel ==
    \E model_id \in RegistryKeys \cup UnknownKeys, o \in Outcomes :
        Finish("route_download_model", <<model_id>>, route_download_model(Now, model_id, o))

RouteDownloadRequired ==
    \E outs \in CallerOutcomes :
        Finish("route_download_required_models", <<>>, route_download_required_models(Now, outs))

RouteDownloadAll ==
    \E outs \in CallerOutcomes :
        Finish("route_download_all_models", <<>>, route_download_all_models(Now, outs))

RouteDownloadEasyocr ==
    \E languages \in {<<lang_en, lang_ar>>, <<lang_en>>}, o \in Outcomes :
        Finish("route_download_easyocr_models", <<languages>>,
               route_download_easyocr_models(Now, languages, o))

CliOptions ==
    {[download_all |-> a, docling |-> d, vlm |-> d, easyocr |-> e] :
        a \in {FALSE}, d \in BOOLEAN, e \in BOOLEAN}
    \cup {[download_all |-> TRUE, docling |-> FALSE, vlm |-> FALSE, easyocr |-> FALSE]}
CliDownload ==
    \E opt \in CliOptions, outs \in CallerOutcomes :
        FinishCli("cli_download", <<opt>>, cli_download(Ctx(tree, CliEnviron), opt, outs))

CliCopyFailures == {[items |-> {}, partial |-> FALSE], [items |-> {english_g2}, partial |-> TRUE]}
CliSetupOffline ==
    \E include_optional \in BOOLEAN, fails \in CliCopyFailures, outs \in CallerOutcomes :
        FinishCli("cli_setup_offline", <<include_optional>>,
                  cli_setup_offline(Ctx(tree, CliEnviron), include_optional, fails, outs))

UiDownloadRequired ==
    \E outs \in CallerOutcomes :
        Finish("ui_download_required_models", <<>>, ui_download_required_models(Now, outs))

UiDownloadAll ==
    \E outs \in CallerOutcomes :
        Finish("ui_download_all_models", <<>>, ui_download_all_models(Now, outs))

Next ==
    \/ Construct
    \/ GetModelStatus
    \/ DownloadModel
    \/ DownloadAll
    \/ DownloadRequired
    \/ CopyFromCache
    \/ ClearCache
    \/ GetDiskUsage

Spec == Init /\ [][Next]_vars

NextCallers ==
    \/ RouteDownloadModel
    \/ RouteDownloadRequired
    \/ RouteDownloadAll
    \/ RouteDownloadEasyocr
    \/ CliDownload
    \/ CliSetupOffline
    \/ UiDownloadRequired
    \/ UiDownloadAll

SpecCallers == Init /\ [][NextCallers]_vars

(***************************************************************************)
(* Requests and threads in steps.  run.writer is the request or thread     *)
(* that wrote HF_HUB_OFFLINE last; run.manager tells whether a manager has *)
(* been constructed.  The event loop runs one toggle at a time; a worker   *)
(* thread runs between any two steps of the loop.                          *)
(***************************************************************************)
InitThreads ==
    /\ tree \in {Removed, ModelManager_init(Removed)}
    /\ run = [Idle EXCEPT !.manager = tree.root]
    /\ \E i \in Installations : cache = i.cache /\ libs = i.libs
    /\ environ \in {Environ0(v) : v \in InheritedOffline}
    /\ ret = Result("import", <<>>, Ctx(tree, environ), Startup)
    /\ toggled = FALSE

LoopFree == \A r \in Requests : run.req[r] \notin {"disable_1", "enable_1"}

\* routes/models.py download_model: disable_offline_mode(), on the event loop
ReqDisable(r) ==
    /\ \/ /\ run.req[r] = "idle" /\ run.manager /\ LoopFree
          /\ environ' = disable_write(environ, 1)
          /\ run' = [run EXCEPT !.req[r] = "disable_1", !.writer = r]
       \/ /\ run.req[r] = "disable_1"
          /\ environ' = disable_write(environ, 2)
          /\ run' = [run EXCEPT !.req[r] = "disabled"]
    /\ toggled' = TRUE
    /\ UNCHANGED <<tree, cache, libs, ret>>

\* asyncio.to_thread(manager.download_model, ...): the worker thread starts
ReqStartFetch(r) ==
    /\ run.req[r] = "disabled"
    /\ run' = [run EXCEPT !.req[r] = "fetching"]
    /\ UNCHANGED <<tree, cache, libs, environ, ret, toggled>>

\* The await of the worker thread ends: the manager's call has returned
\* (download_model, download_required, download_all or download_easyocr_model,
\* by the route of the request; every fetch of a batch has the outcome o), or
\* the await raises (the request is cancelled) and nothing is returned.
ReqEndFetch(r) ==
    /\ run.req[r] = "fetching"
    /\ \/ \E o \in Outcomes :
              LET x == download_model(Now, RequestModel[r], TRUE, o)
              IN /\ "download_model" \in RequestRoutes[r]
                 /\ tree' = x.tree
                 /\ environ' = x.environ
                 /\ ret' = Result("download_model", <<RequestModel[r], TRUE>>, x, ret)
       \/ \E o \in Outcomes :
              LET x == download_required(Now, TRUE, [k \in RegistryKeys |-> o])
              IN /\ "download_required" \in RequestRoutes[r]
                 /\ tree' = x.tree
                 /\ environ' = x.environ
                 /\ ret' = Result("download_required", <<>>, x, ret)
       \/ \E o \in Outcomes :
              LET x == download_all(Now, TRUE, TRUE, [k \in RegistryKeys |-> o])
              IN /\ "download_all" \in RequestRoutes[r]
                 /\ tree' = x.tree
                 /\ environ' = x.environ
                 /\ ret' = Result("download_all", <<TRUE>>, x, ret)
       \/ \E o \in Outcomes :
              LET x == download_easyocr_model(Now, <<lang_en, lang_ar>>, TRUE, o)
              IN /\ "download_easyocr_models" \in RequestRoutes[r]
                 /\ tree' = x.tree
                 /\ environ' = x.environ
                 /\ ret' = Result("download_easyocr_model", <<>>, x, ret)
       \/ /\ ret' = Result("await", <<>>, [Now EXCEPT !.raised = "CancelledError"], ret)
          /\ UNCHANGED <<tree, environ>>
    /\ run' = [run EXCEPT !.req[r] = "fetched"]
    /\ UNCHANGED <<cache, libs, toggled>>

\* routes/models.py download_model: finally: enable_offline_mode(), on the loop
ReqEnable(r) ==
    /\ \/ /\ run.req[r] = "fetched" /\ LoopFree
          /\ environ' = enable_write(environ, 1)
          /\ run' = [run EXCEPT !.req[r] = "enable_1", !.writer = r]
       \/ /\ run.req[r] = "enable_1"
          /\ environ' = enable_write(environ, 2)
          /\ run' = [run EXCEPT !.req[r] = "done"]
    /\ toggled' = TRUE
    /\ UNCHANGED <<tree, cache, libs, ret>>

\* processor.py process_file: enable_offline_mode(), in a worker thread
ProcEnable ==
    /\ \/ /\ run.proc = "idle"
          /\ environ' = enable_write(environ, 1)
          /\ run' = [run EXCEPT !.proc = "enable_1", !.writer = "proc"]
       \/ /\ run.proc = "enable_1"
          /\ environ' = enable_write(environ, 2)
          /\ run' = [run EXCEPT !.proc = "enabled"]
    /\ toggled' = TRUE
    /\ UNCHANGED <<tree, cache, libs, ret>>

\* ModelManager.__init__: the next directory creation of construction c
CtorStep(c) ==
    /\ run.ctor[c].pc < Len(InitDirs)
    /\ run.ctor[c].raised = "None"
    /\ LET m == init_mkdir(tree, run.ctor[c].pc + 1)
           done == m.raised = "None" /\ run.ctor[c].pc + 1 = Len(InitDirs)
       IN /\ tree' = m.tree
          /\ run' = [run EXCEPT !.ctor[c] = [pc |-> IF m.raised = "None" THEN @.pc + 1 ELSE @.pc,
                                             raised |-> m.raised],
                                !.manager = @ \/ done]
    /\ UNCHANGED <<cache, libs, environ, ret, toggled>>

\* processor.py process_file: the converter is built and the document
\* converted, in the worker thread that has enabled offline mode
ProcConvert ==
    /\ \/ /\ run.proc = "enabled"
          /\ run' = [run EXCEPT !.proc = "converting"]
       \/ /\ run.proc = "converting"
          /\ run' = [run EXCEPT !.proc = "converted"]
    /\ UNCHANGED <<tree, cache, libs, environ, ret, toggled>>

NextThreads ==
    \/ \E r \in Requests : ReqDisable(r)
    \/ \E r \in Requests : ReqStartFetch(r)
    \/ \E r \in Requests : ReqEndFetch(r)
    \/ \E r \in Requests : ReqEnable(r)
    \/ ProcEnable
    \/ ProcConvert
    \/ \E c \in Ctors : CtorStep(c)

SpecThreads == InitThreads /\ [][NextThreads]_vars

(***************************************************************************)
(* clear_cache in steps, next to a construction on the same root (the      *)
(* health-check route constructs a manager on each request).  The steps    *)
(* are exists(), rmtree, which removes the whole tree here, and the three  *)
(* mkdir(parents=True), each of which raises FileExistsError when its      *)
(* directory is there; the except branch returns False.                    *)
(***************************************************************************)
ClearStep ==
    /\ run.clear.value = "None"
    /\ LET pc == run.clear.pc
           m == mkdir(tree, InitDirs[pc - 1], FALSE)
       IN \/ /\ pc = 0
             /\ run' = [run EXCEPT !.clear = IF tree.root THEN [pc |-> 1, value |-> "None"]
                                             ELSE [pc |-> 0, value |-> "True"]]
             /\ tree' = tree
          \/ /\ pc = 1
             /\ tree' = rmtree(tree, "none")
             /\ run' = [run EXCEPT !.clear.pc = 2]
          \/ /\ pc \in 2..4
             /\ tree' = m.tree
             /\ run' = [run EXCEPT !.clear =
                            IF m.raised # "None" THEN [pc |-> pc, value |-> "False"]
                            ELSE IF pc = 4 THEN [pc |-> 5, value |-> "True"]
                            ELSE [pc |-> pc + 1, value |-> "None"]]
    /\ UNCHANGED <<cache, libs, environ, ret, toggled>>

NextClear ==
    \/ ClearStep
    \/ CtorStep("ctor1")

SpecClear == InitThreads /\ [][NextClear]_vars

(***************************************************************************)
(* processor.py: process_file on the singleton DocumentProcessor, in       *)
(* steps.  Two worker threads call it, each any number of times.           *)
(***************************************************************************)
\* The options of a call: the fields _needs_rebuild compares, and
\* chunk_max_tokens, which it does not.
DefaultOptions ==
    [pipeline |-> "standard", accelerator |-> "auto", ocr_enabled |-> TRUE,
     ocr_library |-> EASYOCR, ocr_languages |-> <<lang_en>>,
     force_full_page_ocr |-> FALSE, do_table_structure |-> TRUE,
     chunk_max_tokens |-> 512]
ProcessingOptions ==
    { DefaultOptions,
      [DefaultOptions EXCEPT !.ocr_enabled = FALSE],
      [DefaultOptions EXCEPT !.chunk_max_tokens = 256] }

_needs_rebuild(processor, options) ==
    IF processor._converter = None \/ processor._current_options = None THEN TRUE
    ELSE LET current == processor._current_options[1]
         IN \/ current.pipeline # options.pipeline
            \/ current.accelerator # options.accelerator
            \/ current.ocr_enabled # options.ocr_enabled
            \/ current.ocr_library # options.ocr_library
            \/ current.ocr_languages # options.ocr_languages
            \/ current.force_full_page_ocr # options.force_full_page_ocr
            \/ current.do_table_structure # options.do_table_structure

\* process_file of call c: entry with some options, enable_offline_mode(); the
\* _needs_rebuild test;
\* self._converter = self._build_converter(options), or the build raises and
\* the call returns a failure; self._current_options = options;
\* self._converter.convert(file_path); return.
ProcessFileStep(c) ==
    LET me == run.call[c]
    IN \/ /\ me.pc = "idle"
          /\ \E options \in ProcessingOptions :
                 run' = [run EXCEPT !.call[c] =
                            [pc |-> "test", options |-> options, used |-> None]]
          /\ environ' = enable_offline_mode(environ)
          /\ toggled' = TRUE
          /\ UNCHANGED <<tree, cache, libs, ret>>
       \/ /\ me.pc # "idle"
          /\ \/ /\ me.pc = "test"
                /\ run' = [run EXCEPT !.call[c].pc =
                               IF _needs_rebuild(run.processor, me.options)
                               THEN "build" ELSE "convert"]
             \/ /\ me.pc = "build"
                /\ \/ run' = [run EXCEPT !.processor._converter = <<me.options>>,
                                         !.call[c].pc = "record"]
                   \/ run' = [run EXCEPT !.call[c].pc = "failed"]
             \/ /\ me.pc = "record"
                /\ run' = [run EXCEPT !.processor._current_options = <<me.options>>,
                                      !.call[c].pc = "convert"]
             \/ /\ me.pc = "convert"
                /\ run' = [run EXCEPT !.call[c].used = run.processor._converter,
                                      !.call[c].pc = "converted"]
             \/ /\ me.pc \in {"converted", "failed"}
                /\ run' = [run EXCEPT !.call[c].pc = "idle"]
          /\ UNCHANGED <<tree, cache, libs, environ, ret, toggled>>

NextProcessor == \E c \in Calls : ProcessFileStep(c)

SpecProcessor == Init /\ [][NextProcessor]_vars

(***************************************************************************)
(* Properties of the batch download (Spec).                                *)
(***************************************************************************)
BatchOps == {"download_all", "download_required"}
IncludeOptional(r) == IF r.op = "download_all" THEN r.arg[1] ELSE FALSE
KeysFor(include_optional) ==
    {MODELS_INFO[i].id :
        i \in {j \in DOMAIN MODELS_INFO : include_optional \/ MODELS_INFO[j].required}}

\* C1: download_all (and download_required) returns a map whose key set is
\* exactly the registry keys considered: all keys when include_optional is
\* true, the required keys when it is false.  Every considered key has a
\* boolean verdict, whichever fetches failed, and nothing is raised.
BatchKeySet ==
    ret.op \in BatchOps =>
        /\ ret.raised = "None"
        /\ DOMAIN ret.value = KeysFor(IncludeOptional(ret))
        /\ \A k \in DOMAIN ret.value : ret.value[k] \in BOOLEAN

\* A batch over all keys whose first download failed and whose later ones
\* succeeded.
BatchGoesOnAfterFailure ==
    /\ ret.op = "download_all"
    /\ ret.arg[1]
    /\ DOMAIN ret.value = RegistryKeys
    /\ ~ret.value["layout"]
    /\ ret.value["docling_models"]
    /\ ret.value["easyocr_ar"]

\* An entry of the log that concerns the descriptor info: a call of
\* download_model or of a driver for it, or a fetch of its model.
Concerns(e, info) ==
    \/ e.ev = "download_model" /\ e.model_id = info.id
    \/ e.ev = "download_hf_model" /\ Truthy(info.hf_repo) /\ e.target = info.hf_repo
    \/ e.ev = "download_easyocr_model" /\ info.ocr_library = EASYOCR
    \/ e.ev = "fetch" /\ e.backend = "hub" /\ Truthy(info.hf_repo) /\ e.target = info.hf_repo
    \/ e.ev = "fetch" /\ e.backend = "easyocr" /\ info.ocr_library = EASYOCR

\* C2: download_all with include_optional false, and download_required, never
\* calls download_model and never starts a fetch for a descriptor whose
\* required flag is false, and the key of such a descriptor is not in the
\* returned map.
OptionalSkipped ==
    ret.op \in BatchOps /\ ~IncludeOptional(ret) =>
        \A i \in DOMAIN MODELS_INFO :
            ~MODELS_INFO[i].required =>
                /\ MODELS_INFO[i].id \notin DOMAIN ret.value
                /\ \A j \in DOMAIN ret.log : ~Concerns(ret.log[j], MODELS_INFO[i])

\* download_required has fetched required models and returned their verdicts.
RequiredOnlyBatch ==
    /\ ret.op = "download_required"
    /\ DOMAIN ret.value = {"layout", "docling_models", "chunker_tokenizer"}
    /\ \E j \in DOMAIN ret.log : ret.log[j].ev = "fetch"
    /\ ret.value["layout"]

(***************************************************************************)
(* Properties of download_model (Spec).                                    *)
(***************************************************************************)
FetchRaised(log) == \E j \in DOMAIN log : log[j].ev = "fetch" /\ log[j].err # "None"
Mentions(msgs, err) ==
    \E m \in DOMAIN msgs : \E j \in DOMAIN msgs[m] : msgs[m][j] = err

\* C3: when the fetch inside a driver raises (hub snapshot or EasyOCR reader),
\* download_model called with a progress sink returns false, has delivered a
\* message that contains the text of the error, and raises nothing.
CatchesFetchErrors ==
    ret.op = "download_model" /\ ret.arg[2] /\ FetchRaised(ret.log) =>
        /\ ret.raised = "None"
        /\ ret.value = FALSE
        /\ \E j \in DOMAIN ret.log :
               /\ ret.log[j].ev = "fetch"
               /\ ret.log[j].err # "None"
               /\ Mentions(ret.msgs, ret.log[j].err)

\* download_model with a sink, for an EasyOCR descriptor whose reader raised.
ReaderRaisedWithSink ==
    /\ ret.op = "download_model"
    /\ ret.arg[2]
    /\ \E j \in DOMAIN ret.log :
           ret.log[j].ev = "fetch" /\ ret.log[j].backend = "easyocr" /\ ret.log[j].err # "None"

\* C4: download_model with a key that is not in the registry is rejected with
\* NotFound, which the caller can tell from the false of a failed download.
UnknownKeyRejected ==
    ret.op = "download_model" /\ ~InRegistry(ret.arg[1]) => ret.raised = "NotFound"

(***************************************************************************)
(* Properties of clear_cache and of the managed tree (Spec).               *)
(***************************************************************************)
IsHub(info) == Truthy(info.hf_repo)
IsEasyOcr(info) == ~Truthy(info.hf_repo) /\ info.ocr_library = EASYOCR
DefaultHubHolds(repo_id) == cache.hubExists /\ cache.hub[RepoDirName(repo_id)] = "full"
DefaultOcrHolds(language) ==
    cache.ocrExists /\ \E f \in cache.files : Contains(f, language)
AfterClearCache == ret.op = "get_model_status" /\ ret.after.op = "clear_cache"

TreeIsEmpty(t) ==
    /\ ~t.hub
    /\ \A n \in HubNames : t.repos[n] = "absent"
    /\ t.files = {}

\* C6: clear_cache returns true only if the root and both required
\* subdirectories exist on return and hold no files, from every starting
\* state of the tree.
TrueMeansRecreated ==
    ret.op = "clear_cache" /\ ret.value = TRUE =>
        tree.root /\ tree.hf /\ tree.ocr /\ TreeIsEmpty(tree)

\* C7: whenever no operation is in progress, the root and both required
\* subdirectories exist.
RequiredDirsExist == tree.root /\ tree.hf /\ tree.ocr

(***************************************************************************)
(* Properties of get_model_status (Spec).                                  *)
(***************************************************************************)
\* The probe that the shape of a descriptor selects, on the present tree.
ProbeOf(info) ==
    IF Truthy(info.hf_repo) THEN _check_hf_model_exists(tree, info.hf_repo)
    ELSE IF TruthyStr(info.ocr_library)
         THEN _check_ocr_model_exists(tree, info.ocr_library, info.language)
         ELSE FALSE

\* C8: get_model_status returns one status per registry descriptor, in
\* registry order, with id and display metadata copied from the descriptor,
\* and downloaded = false whenever the probe of the descriptor returns false.
StatusPerDescriptor ==
    ret.op = "get_model_status" =>
        /\ DOMAIN ret.value = DOMAIN MODELS_INFO
        /\ \A i \in DOMAIN MODELS_INFO :
               /\ ret.value[i].id = MODELS_INFO[i].id
               /\ ret.value[i].name = MODELS_INFO[i].name
               /\ ret.value[i].description = MODELS_INFO[i].description
               /\ ret.value[i].size_mb = MODELS_INFO[i].size_mb
               /\ ret.value[i].required = MODELS_INFO[i].required
               /\ ~ProbeOf(MODELS_INFO[i]) => ~ret.value[i].downloaded

\* A status list with a hub model present, a hub model missing and an EasyOCR
\* model missing.
MixedStatus ==
    /\ ret.op = "get_model_status"
    /\ ret.value[1].downloaded
    /\ ~ret.value[2].downloaded
    /\ ~ProbeOf(MODELS_INFO[6])
    /\ ~ret.value[6].downloaded

(***************************************************************************)
(* Properties of the offline flag (SpecCallers).                           *)
(***************************************************************************)
\* C9: as long as no caller has toggled the flag since the configuration
\* module was loaded, offline mode is enabled.
OfflineAtStartup == ~toggled => is_offline_mode(environ)

CallerOps ==
    {"route_download_model", "route_download_required_models", "route_download_all_models",
     "route_download_easyocr_models", "cli_download", "cli_setup_offline",
     "ui_download_required_models", "ui_download_all_models"}
IsDownloadCall(e) ==
    e.ev \in {"download_all", "download_model", "download_hf_model", "download_easyocr_model"}
Bracketed(log) ==
    \A i \in DOMAIN log :
        IsDownloadCall(log[i]) =>
            /\ \E j \in 1..(i - 1) : log[j].ev = "disable_offline_mode"
            /\ \E j \in (i + 1)..Len(log) : log[j].ev = "enable_offline_mode"

\* C10: every caller of a download operation disables offline mode before the
\* download starts and enables it again after the download has returned, so
\* that offline mode is enabled in its process when the caller finishes.
DownloadsBracketed ==
    ret.op \in CallerOps => Bracketed(ret.log) /\ ret.offline

(***************************************************************************)
(* Properties of concurrent requests (SpecThreads).                        *)
(***************************************************************************)
Fetching(r) == run.req[r] = "fetching"

\* C11: with two download requests running concurrently, a request's fetch
\* can be in progress while offline mode is enabled, and only because another
\* request or thread wrote the flag after this request disabled it: when that
\* writer is the other request, it has finished its download and is in, or
\* past, its enable_offline_mode.
FetchOfflineOnlyByOther ==
    \A r \in Requests :
        Fetching(r) /\ is_offline_mode(environ) =>
            /\ run.writer \in (Requests \ {r}) \cup {"proc"}
            /\ run.writer \in Requests => run.req[run.writer] \in {"enable_1", "done"}

\* req1 is still fetching, req2 has finished and enabled offline mode again,
\* and no other thread has touched the flag.
FetchWhileReEnabled ==
    /\ Fetching("req1")
    /\ run.req["req2"] = "done"
    /\ run.proc = "idle"
    /\ run.writer = "req2"
    /\ is_offline_mode(environ)

\* C12: whenever no enable_offline_mode or disable_offline_mode call is in the
\* middle of executing, HF_HUB_OFFLINE and TRANSFORMERS_OFFLINE hold the same
\* value, also when toggles of different threads interleave.
PairAgrees ==
    LET MidToggle ==
            \/ \E r \in Requests : run.req[r] \in {"disable_1", "enable_1"}
            \/ run.proc = "enable_1"
    IN ~MidToggle => environ.HF_HUB_OFFLINE = environ.TRANSFORMERS_OFFLINE

(***************************************************************************)
(* Properties of copy_from_cache (Spec).                                   *)
(***************************************************************************)
SecondCopy == ret.op = "copy_from_cache" /\ ret.after.op = "copy_from_cache"
IsCopy(e) == e.ev \in {"copytree", "copy2"}
NoOverwrite(log) == \A j \in DOMAIN log : IsCopy(log[j]) => ~log[j].existed

CopyKey(e) == IF e.ev = "copy2" THEN easyocr_prefix \o e.path ELSE e.path

KeysAreEntryNames ==
    ret.op = "copy_from_cache" =>
        \A k \in DOMAIN ret.value :
            \E j \in DOMAIN ret.log : IsCopy(ret.log[j]) /\ k = ret.log[j].path

\* C15, as the code has it: the key of a hub entry is its directory name; the
\* key of an EasyOCR entry is "easyocr_" followed by its file name.
OcrKeysArePrefixed ==
    ret.op = "copy_from_cache" =>
        \A k \in DOMAIN ret.value :
            \/ \E j \in DOMAIN ret.log :
                   /\ ret.log[j].ev = "copytree"
                   /\ k = ret.log[j].path
                   /\ cache.hub[k] # "absent"
            \/ \E j \in DOMAIN ret.log :
                   /\ ret.log[j].ev = "copy2"
                   /\ k = <<"e", "a", "s", "y", "o", "c", "r", "_">> \o ret.log[j].path
                   /\ ret.log[j].path \in cache.files

\* A run that returned a verdict for a hub entry and one for an EasyOCR file.
CopiedBothKinds ==
    /\ ret.op = "copy_from_cache"
    /\ RepoDirName(MODELS_INFO[1].hf_repo) \in DOMAIN ret.value
    /\ \E f \in cache.files : (easyocr_prefix \o f) \in DOMAIN ret.value

(***************************************************************************)
(* Properties of the probes (Spec).                                        *)
(***************************************************************************)

\* C16: get_model_status raises in no state of the backends and every probe
\* answers with a boolean, which is false when the probe's library is not
\* installed (hub, RapidOCR) or when the directories it reads do not exist
\* (hub, EasyOCR, Tesseract).
ProbesTolerateAbsence ==
    ret.op = "get_model_status" =>
        /\ ret.raised = "None"
        /\ \A i \in DOMAIN MODELS_INFO :
               LET info == MODELS_INFO[i]
                   downloaded == ret.value[i].downloaded
                   NoRapidOcr ==
                       "rapidocr" \notin libs /\ "rapidocr_onnxruntime" \notin libs
               IN /\ downloaded \in BOOLEAN
                  /\ IsHub(info) /\ "huggingface_hub" \notin libs => ~downloaded
                  /\ IsHub(info) /\ ~tree.hub /\ ~cache.hubExists => ~downloaded
                  /\ IsEasyOcr(info) /\ ~tree.ocr /\ ~cache.ocrExists => ~downloaded
                  /\ info.ocr_library = RAPIDOCR /\ NoRapidOcr => ~downloaded
        /\ cache.tessdata = "missing" =>
               /\ ~_check_ocr_model_exists(tree, TESSERACT, None)
               /\ ~_check_ocr_model_exists(tree, TESSERACT, lang_en)

\* A status taken with no library installed while the default hub cache holds
\* the layout model.
StatusWithoutLibraries ==
    /\ ret.op = "get_model_status"
    /\ libs = {}
    /\ DefaultHubHolds(MODELS_INFO[1].hf_repo)
    /\ ~ret.value[1].downloaded
    /\ ~ret.value[7].downloaded

(***************************************************************************)
(* Properties of the download drivers (Spec).                              *)
(***************************************************************************)
\* C17: a download driver called with a progress sink delivers a starting
\* message and then exactly one terminal message, which is the last message
\* and is a completed message exactly when the driver returns true and a
\* failed message exactly when it returns false.
StartThenTerminal ==
    LET DriverCalled ==
            \E j \in DOMAIN ret.log :
                ret.log[j].ev \in {"download_hf_model", "download_easyocr_model"}
        IsStarting(msg) ==
            Head(msg) \in {"Downloading ", "Downloading EasyOCR models for "}
        IsCompleted(msg) ==
            Head(msg) \in {"Downloaded ", "EasyOCR models downloaded for "}
        IsFailed(msg) ==
            Head(msg) \in {"Failed to download ", "Failed to download EasyOCR: "}
    IN ret.op = "download_model" /\ ret.arg[2] /\ DriverCalled =>
           /\ Len(ret.msgs) = 2
           /\ IsStarting(ret.msgs[1])
           /\ IsCompleted(ret.msgs[2]) = ret.value
           /\ IsFailed(ret.msgs[2]) = ~ret.value

FetchesOf(log) == {j \in DOMAIN log : log[j].ev = "fetch"}

\* C18: nothing is retried.  A download_model call makes at most one fetch; a
\* download_all call makes exactly one download_model call for each
\* descriptor it considers and none else, and at most one fetch for each of
\* them, whether the attempts succeed or fail.
SingleAttempt ==
    LET AllCalls == {j \in DOMAIN ret.log : ret.log[j].ev = "download_model"}
        CallsFor(model_id) == {j \in AllCalls : ret.log[j].model_id = model_id}
        FetchesOfTarget(backend, target) ==
            {j \in FetchesOf(ret.log) :
                ret.log[j].backend = backend /\ ret.log[j].target = target}
    IN /\ ret.op = "download_model" =>
              /\ Cardinality(AllCalls) = 1
              /\ Cardinality(FetchesOf(ret.log)) <= 1
       /\ ret.op \in BatchOps =>
              /\ \A k \in KeysFor(IncludeOptional(ret)) : Cardinality(CallsFor(k)) = 1
              /\ Cardinality(AllCalls) = Cardinality(KeysFor(IncludeOptional(ret)))
              /\ \A j \in FetchesOf(ret.log) :
                     Cardinality(FetchesOfTarget(ret.log[j].backend, ret.log[j].target)) = 1

\* A batch whose first fetch raised: it was attempted once and the batch went
\* on.
FailedOnceInBatch ==
    /\ ret.op = "download_all"
    /\ ~ret.value["layout"]
    /\ \E j \in FetchesOf(ret.log) :
           /\ ret.log[j].target = MODELS_INFO[1].hf_repo
           /\ ret.log[j].err # "None"
    /\ Cardinality(FetchesOf(ret.log)) > 1

(***************************************************************************)
(* Properties of construction (SpecThreads).                               *)
(***************************************************************************)
\* C19: in every interleaving of the directory creations of two
\* constructions on the same root, no construction raises and the root and
\* both subdirectories exist once a construction is complete; a creation
\* step on a tree that has the three directories leaves the tree as it is.
ConstructionIsSafe ==
    /\ [](\A c \in Ctors :
             /\ run.ctor[c].raised = "None"
             /\ run.ctor[c].pc = Len(InitDirs) => tree.root /\ tree.hf /\ tree.ocr)
    /\ [][\A c \in Ctors :
              run'.ctor[c] # run.ctor[c] /\ tree.root /\ tree.hf /\ tree.ocr
                  => tree' = tree]_vars

\* Two constructions on a root that did not exist, both past the creation of
\* the root and of the huggingface directory and neither complete.
ConstructionsInterleaved ==
    /\ ~run.manager
    /\ \A c \in Ctors : run.ctor[c].pc = 2 /\ run.ctor[c].raised = "None"
    /\ tree.root /\ tree.hf /\ ~tree.ocr

(***************************************************************************)
(* Properties of get_disk_usage (Spec).                                    *)
(***************************************************************************)
\* C20: get_disk_usage returns total = huggingface + easyocr, and an entry is
\* 0 when its subdirectory does not exist or holds no files; all three are 0
\* on an empty managed tree.
UsageAddsUp ==
    LET NoHubBytes == ~tree.hf \/ \A n \in HubNames : tree.repos[n] # "full"
        NoOcrBytes == ~tree.ocr \/ tree.files = {}
    IN ret.op = "get_disk_usage" =>
           /\ ret.value.total = ret.value.huggingface + ret.value.easyocr
           /\ NoHubBytes => ret.value.huggingface = 0
           /\ NoOcrBytes => ret.value.easyocr = 0
           /\ ret.value.huggingface >= 0 /\ ret.value.easyocr >= 0

\* A usage taken on a tree that holds hub models and EasyOCR files.
UsageOfBothStores ==
    /\ ret.op = "get_disk_usage"
    /\ ret.value.huggingface > 0
    /\ ret.value.easyocr > 0
    /\ ret.value.total > ret.value.huggingface

(***************************************************************************)
(* Properties of get_model_status and of the hub probe (Spec).             *)
(***************************************************************************)
\* C21: get_model_status is a query: the step in which it runs leaves the
\* managed tree, the default caches, the importable modules, the path
\* variables and the offline pair as they were.  (The registry is the
\* constant MODELS_INFO.)
StatusIsPure ==
    [][ret'.op = "get_model_status" =>
          /\ tree' = tree
          /\ cache' = cache
          /\ libs' = libs
          /\ environ' = environ]_vars

\* A status taken on a tree that holds a downloaded hub model and EasyOCR
\* files.
StatusOfFilledTree ==
    /\ ret.op = "get_model_status"
    /\ tree.hub /\ tree.files # {}
    /\ ret.value[1].downloaded
    /\ ret.value[5].downloaded

\* C22, as stated: the hub probe is true if and only if the one cache it
\* consults (the managed hub directory when it exists, the default hub cache
\* otherwise) holds the repository with a size greater than zero.
HubProbeIffHeld ==
    \A r \in RegistryRepos :
        LET consulted == IF tree.hub THEN tree.repos
                         ELSE IF cache.hubExists THEN cache.hub ELSE NoEntries
        IN _check_hf_model_exists(tree, r) <=> consulted[RepoDirName(r)] = "full"

\* C22, as the code has it: the same, when huggingface_hub can be imported;
\* when it cannot, the probe is false whatever the caches hold.
HubProbeOneCache ==
    \A r \in RegistryRepos :
        LET consulted == IF tree.hub THEN tree.repos
                         ELSE IF cache.hubExists THEN cache.hub ELSE NoEntries
        IN IF "huggingface_hub" \in libs
           THEN _check_hf_model_exists(tree, r) <=> consulted[RepoDirName(r)] = "full"
           ELSE ~_check_hf_model_exists(tree, r)

\* A status taken when the managed hub directory exists without the layout
\* model, which the default cache holds: the model is reported missing.
DefaultCacheShadowed ==
    /\ ret.op = "get_model_status"
    /\ "huggingface_hub" \in libs
    /\ tree.hub
    /\ tree.repos[RepoDirName(MODELS_INFO[1].hf_repo)] = "absent"
    /\ cache.hubExists
    /\ cache.hub[RepoDirName(MODELS_INFO[1].hf_repo)] = "full"
    /\ ~ret.value[1].downloaded

(***************************************************************************)
(* Properties of a download or a copy followed by a status (Spec).         *)
(***************************************************************************)
\* C24: a download_model of a hub model, or a copy_from_cache, makes no other
\* hub model look missing: a registry repository that the hub probe reported
\* before the call (and that is not the one downloaded) is reported after it.
OthersStayDownloaded ==
    [][\A r \in RegistryRepos :
           /\ \/ ret'.op = "copy_from_cache"
              \/ /\ ret'.op = "download_model"
                 /\ InRegistry(ret'.arg[1])
                 /\ Truthy(Info(ret'.arg[1]).hf_repo)
                 /\ Info(ret'.arg[1]).hf_repo # r
           /\ _check_hf_model_exists(tree, r)
           => _check_hf_model_exists(tree', r)]_vars

\* C25: when download_model(k) has returned true for a registry key k, a
\* get_model_status taken right after it reports k as downloaded.
TrueMeansDownloaded ==
    ret.op = "download_model" /\ InRegistry(ret.arg[1]) /\ ret.value = TRUE =>
        status_of(tree, Info(ret.arg[1])).downloaded

(***************************************************************************)
(* Properties of a failed copy and of the offline pair (Spec).             *)
(***************************************************************************)
\* C26: an item whose copy failed in copy_from_cache is not present at its
\* destination in the managed tree when the call returns.
FailedCopyLeavesNothing ==
    ret.op = "copy_from_cache" =>
        \A j \in DOMAIN ret.log :
            IsCopy(ret.log[j]) /\ ret.log[j].err # "None" =>
                IF ret.log[j].ev = "copytree"
                THEN ~dest_exists_hub(tree, ret.log[j].path)
                ELSE ~dest_exists_ocr(tree, ret.log[j].path)

\* C30: no operation of the manager changes the offline pair: in every step
\* (construction, get_model_status, download_model, download_all,
\* download_required, copy_from_cache, clear_cache, get_disk_usage), both
\* variables keep the values they had, whether the operation succeeded or
\* failed.
OfflinePairKept ==
    [][/\ environ'.HF_HUB_OFFLINE = environ.HF_HUB_OFFLINE
       /\ environ'.TRANSFORMERS_OFFLINE = environ.TRANSFORMERS_OFFLINE]_vars

\* A download of an EasyOCR model has failed after it wrote
\* EASYOCR_MODULE_PATH, and the offline pair is as the process inherited it.
PairKeptByFailedDownload ==
    /\ ret.op = "download_model"
    /\ ret.value = FALSE
    /\ \E j \in DOMAIN ret.log : ret.log[j].ev = "setenv"
    /\ environ.HF_HUB_OFFLINE = "unset"
    /\ environ.TRANSFORMERS_OFFLINE = "unset"

(***************************************************************************)
(* Properties of the download routes and of process_file (SpecThreads).    *)
(***************************************************************************)
\* C23: when at least one download request has run to its end and no
\* request is in flight, offline mode is enabled (both variables of the pair
\* are "1"), whichever routes the requests took, however their steps
\* interleaved and also when an await of a download raised.
QuiescentOffline ==
    /\ \A r \in Requests : run.req[r] \in {"idle", "done"}
    /\ \E r \in Requests : run.req[r] = "done"
    => /\ is_offline_mode(environ)
       /\ environ.TRANSFORMERS_OFFLINE = "1"

\* Both requests are done and the await that ended last raised.
AllDoneAfterRaise ==
    /\ \A r \in Requests : run.req[r] = "done"
    /\ ret.op = "await"
    /\ ret.raised = "CancelledError"
    /\ run.proc = "idle"
    /\ is_offline_mode(environ)

\* C28: while process_file is building the converter and converting the
\* document, offline mode is enabled, also when download requests run at
\* the same time.
ConversionOffline == run.proc = "converting" => is_offline_mode(environ)

(***************************************************************************)
(* Properties of clear_cache next to a construction (SpecClear).           *)
(***************************************************************************)
\* C27: in every interleaving of a clear_cache call with a construction on
\* the same root, clear_cache returns true when its rmtree succeeded, and
\* when both have finished the root and both subdirectories exist.
ClearRaceSafe ==
    /\ run.clear.value # "None" /\ run.clear.pc >= 2 => run.clear.value = "True"
    /\ run.clear.value # "None" /\ run.ctor["ctor1"].pc = Len(InitDirs) =>
           tree.root /\ tree.hf /\ tree.ocr

(***************************************************************************)
(* Properties of process_file on the shared processor (SpecProcessor).     *)
(***************************************************************************)
\* C29: every conversion uses a converter built from options equal to the
\* options of its call on pipeline, accelerator, ocr_enabled, ocr_library,
\* ocr_languages, force_full_page_ocr and do_table_structure, for any
\* sequence of calls, also from two threads whose steps interleave.
ConverterMatchesCall ==
    \A c \in Calls :
        run.call[c].pc = "converted" =>
            /\ run.call[c].used # None
            /\ LET built == run.call[c].used[1]
                   options == run.call[c].options
               IN /\ built.pipeline = options.pipeline
                  /\ built.accelerator = options.accelerator
                  /\ built.ocr_enabled = options.ocr_enabled
                  /\ built.ocr_library = options.ocr_library
                  /\ built.ocr_languages = options.ocr_languages
                  /\ built.force_full_page_ocr = options.force_full_page_ocr
                  /\ built.do_table_structure = options.do_table_structure

====
